---- MODULE Spec2Model ----
(***************************************************************************)
(* Environment Variable Manager (main.go): a GUI process that reads a YAML *)
(* configuration and applies it to the two registry environment keys       *)
(* (HKCU\Environment, HKLM\...\Session Manager\Environment), exports the   *)
(* keys to YAML, and can relaunch itself elevated.                         *)
(*                                                                         *)
(* Strings that the code inspects character by character (file paths, the *)
(* command line) are sequences of one-character strings.  Variable names   *)
(* and values, which the code only copies and compares, are TLA+ strings.  *)
(***************************************************************************)
EXTENDS Integers, Sequences, FiniteSets, TLC

(***************************************************************************)
(* Bounds of the model.                                                    *)
(***************************************************************************)
\* longest user_variables list of a configuration file
MaxUser == 2
\* number of applyEnvVars goroutines in flight at one time
MaxGo == 2
\* number of buttons pressed in one behaviour of the process driven freely
MaxPresses == 3

(***************************************************************************)
(* Character strings.                                                      *)
(***************************************************************************)
UpperChars == <<"A","B","C","D","E","F","G","H","I","J","K","L","M",
                "N","O","P","Q","R","S","T","U","V","W","X","Y","Z">>
LowerChars == <<"a","b","c","d","e","f","g","h","i","j","k","l","m",
                "n","o","p","q","r","s","t","u","v","w","x","y","z">>

\* strings.ToLower on one character
LowerChar(c) ==
    IF \E k \in DOMAIN UpperChars : UpperChars[k] = c
    THEN LowerChars[CHOOSE k \in DOMAIN UpperChars : UpperChars[k] = c]
    ELSE c

\* strings.ToLower
ToLower(s) == [k \in 1..Len(s) |-> LowerChar(s[k])]

\* os.IsPathSeparator on Windows
IsPathSeparator(c) == c \in {"\\", "/"}

\* filepath.Ext: the suffix beginning at the final dot of the final path
\* element; empty if there is no dot
RECURSIVE ExtFrom(_, _)
ExtFrom(path, k) ==
    IF k < 1 \/ IsPathSeparator(path[k]) THEN << >>
    ELSE IF path[k] = "." THEN SubSeq(path, k, Len(path))
    ELSE ExtFrom(path, k - 1)

Ext(path) == ExtFrom(path, Len(path))

DotYaml == <<".", "y", "a", "m", "l">>
DotYml == <<".", "y", "m", "l">>

\* isValidYAMLFile: the extension guard
isValidYAMLFile(filePath) ==
    LET ext == ToLower(Ext(filePath)) IN ext = DotYaml \/ ext = DotYml

\* strings.HasSuffix
HasSuffix(s, suffix) ==
    /\ Len(s) >= Len(suffix)
    /\ SubSeq(s, Len(s) - Len(suffix) + 1, Len(s)) = suffix

\* strings.Join(args, " ")
RECURSIVE JoinArgs(_)
JoinArgs(args) ==
    IF Len(args) = 0 THEN << >>
    ELSE IF Len(args) = 1 THEN args[1]
    ELSE args[1] \o <<" ">> \o JoinArgs(Tail(args))

\* The command line of a new process split into os.Args[1:]: arguments are
\* separated by runs of spaces (no quoting characters occur in the model).
RECURSIVE SplitArgs(_, _)
SplitArgs(line, cur) ==
    IF Len(line) = 0 THEN (IF Len(cur) = 0 THEN << >> ELSE <<cur>>)
    ELSE IF Head(line) = " "
         THEN (IF Len(cur) = 0 THEN SplitArgs(Tail(line), << >>)
               ELSE <<cur>> \o SplitArgs(Tail(line), << >>))
    ELSE SplitArgs(Tail(line), Append(cur, Head(line)))

\* contains: whether str is an element of the slice s
contains(s, str) == \E k \in 1..Len(s) : s[k] = str

(***************************************************************************)
(* File paths of the model.                                                *)
(***************************************************************************)
NoPath == << >>
PathYaml == <<"c", "f", "g", ".", "y", "a", "m", "l">>
PathYML == <<"c", "f", "g", ".", "Y", "M", "L">>
PathTxt == <<"c", "f", "g", ".", "t", "x", "t">>
PathNoExt == <<"c", "f", "g">>
PathDotDir == <<"d", ".", "y", "m", "l", "\\", "c", "f", "g">>
PathSpace == <<"m", "y", " ", "c", ".", "y", "m", "l">>

Paths == {PathYaml, PathYML, PathTxt, PathNoExt, PathDotDir, PathSpace}

(***************************************************************************)
(* Configuration model (type Variable, type Config).  A nil list and an    *)
(* empty list are both the empty sequence.                                 *)
(***************************************************************************)
Variable(name, value, operation) ==
    [name |-> name, value |-> value, operation |-> operation]

Config(user, system) == [user_variables |-> user, system_variables |-> system]

EmptyConfig == Config(<< >>, << >>)

\* all sequences over S of length at most n
SeqUpTo(S, n) == UNION {[1..k -> S] : k \in 0..n}

(***************************************************************************)
(* Serializer: yaml.Marshal(&config) and yaml.Unmarshal(data, &config).    *)
(* A document is the sequence of its lines.  A top-level line is           *)
(* "key:" or "key: []"; an entry's lines are "- name: s", "  value: s",    *)
(* "  operation: s", where the scalar s is written plain or quoted.        *)
(***************************************************************************)
\* plain scalars YAML reads as null
NullForms == {"", "~", "null"}
\* plain scalars YAML reads as a number or a boolean
IntForms == {"1", "2"}
BoolForms == {"true"}
\* text that is not a scalar when written plain: a nested mapping
MapForms == {"a: b"}
\* text that is a comment when written plain
CommentForms == {"#c"}

\* the tag yaml's resolver gives a plain scalar
ResolveTag(s) ==
    IF s \in NullForms THEN "null"
    ELSE IF s \in IntForms THEN "int"
    ELSE IF s \in BoolForms THEN "bool"
    ELSE "str"

\* an encoder that writes every string plain
EncodeScalarPlain(s) == [style |-> "plain", text |-> s]

\* the encoder writes a string plain only if it resolves back to a string
\* and holds no indicator characters; otherwise it is quoted
EncodeScalar(s) ==
    IF ResolveTag(s) = "str" /\ s \notin MapForms /\ s \notin CommentForms
    THEN [style |-> "plain", text |-> s]
    ELSE [style |-> "quoted", text |-> s]

\* decoding a scalar into a Go string field: a quoted scalar is its text;
\* a plain null is the zero value; any other plain scalar is its text;
\* a nested mapping cannot be decoded into a string
DecodeScalar(sc) ==
    IF sc.style = "quoted" THEN [ok |-> TRUE, s |-> sc.text]
    ELSE IF sc.text \in MapForms THEN [ok |-> FALSE, s |-> ""]
    ELSE IF sc.text \in CommentForms \/ ResolveTag(sc.text) = "null"
         THEN [ok |-> TRUE, s |-> ""]
    ELSE [ok |-> TRUE, s |-> sc.text]

KeyLine(key, empty) == [t |-> "key", key |-> key, flow |-> empty]
FieldLine(dash, key, sc) == [t |-> "field", dash |-> dash, key |-> key, sc |-> sc]
GarbageLine == [t |-> "garbage"]

RECURSIVE RenderItems(_)
RenderItems(vars) ==
    IF Len(vars) = 0 THEN << >>
    ELSE << FieldLine(TRUE, "name", EncodeScalar(Head(vars).name)),
            FieldLine(FALSE, "value", EncodeScalar(Head(vars).value)),
            FieldLine(FALSE, "operation", EncodeScalar(Head(vars).operation)) >>
         \o RenderItems(Tail(vars))

RenderList(key, vars) ==
    IF Len(vars) = 0 THEN <<KeyLine(key, TRUE)>>
    ELSE <<KeyLine(key, FALSE)>> \o RenderItems(vars)

\* a renderer that writes the two lists under each other's key
RenderSwapped(c) ==
    RenderList("user_variables", c.system_variables)
        \o RenderList("system_variables", c.user_variables)

\* yaml.Marshal(&config): user_variables, then system_variables
Render(c) ==
    RenderList("user_variables", c.user_variables)
        \o RenderList("system_variables", c.system_variables)

ListKeys == {"user_variables", "system_variables"}
FieldKeys == {"name", "value", "operation"}

\* the parser's step on one line; st = [ok, cfg, cur]
ParseLine(st, line) ==
    IF ~st.ok THEN st
    ELSE IF line.t = "garbage" THEN [st EXCEPT !.ok = FALSE]
    ELSE IF line.t = "key" THEN
        IF line.key \in ListKeys
        THEN [st EXCEPT !.cur = line.key, !.cfg[line.key] = << >>]
        ELSE [st EXCEPT !.cur = "other"]
    ELSE \* a field line
        IF st.cur = "none" THEN [st EXCEPT !.ok = FALSE]
        ELSE IF st.cur = "other" THEN st
        ELSE
            LET d == DecodeScalar(line.sc)
                list == st.cfg[st.cur]
                base == IF line.dash THEN Append(list, Variable("", "", ""))
                        ELSE list
                n == Len(base)
            IN  IF ~d.ok \/ n = 0 THEN [st EXCEPT !.ok = FALSE]
                ELSE IF line.key \notin FieldKeys
                     THEN [st EXCEPT !.cfg[st.cur] = base]
                ELSE [st EXCEPT !.cfg[st.cur] =
                          [base EXCEPT ![n][line.key] = d.s]]

RECURSIVE ParseFrom(_, _)
ParseFrom(doc, st) ==
    IF Len(doc) = 0 THEN st ELSE ParseFrom(Tail(doc), ParseLine(st, Head(doc)))

\* yaml.Unmarshal(data, &config): [ok, cfg]; missing lists stay empty,
\* unknown top-level keys are ignored
Parse(doc) ==
    LET st == ParseFrom(doc, [ok |-> TRUE, cfg |-> EmptyConfig, cur |-> "none"])
    IN  [ok |-> st.ok, cfg |-> st.cfg]

\* a file that is not YAML
MalformedDoc == <<GarbageLine>>
\* ioutil.ReadFile fails (the file does not exist or cannot be read)
NoFile == <<[t |-> "nofile"]>>

(***************************************************************************)
(* The store: the two registry keys, each a map from value name to string. *)
(***************************************************************************)
\* registry.CURRENT_USER "Environment" and registry.LOCAL_MACHINE
\* "SYSTEM\CurrentControlSet\Control\Session Manager\Environment"
Scopes == {"user", "system"}
Names == {"A", "B"}
Absent == "<absent>"

\* key.SetStringValue(name, value); err is the environment's choice to fail
SetStringValue(kv, name, value, err) ==
    IF err THEN [kv |-> kv, res |-> "error"]
    ELSE [kv |-> [kv EXCEPT ![name] = value], res |-> "ok"]

\* key.DeleteValue(name): ErrNotExist when the name is absent
DeleteValue(kv, name, err) ==
    IF err THEN [kv |-> kv, res |-> "error"]
    ELSE IF kv[name] = Absent THEN [kv |-> kv, res |-> "notexist"]
    ELSE [kv |-> [kv EXCEPT ![name] = Absent], res |-> "ok"]

Call(scope, op, name, value, res) ==
    [scope |-> scope, op |-> op, name |-> name, value |-> value, res |-> res]

\* loop body in which a delete of an absent name is reported as a failure
applyEntryStrictDelete(kv, scope, v, err) ==
    IF v.operation = "set" THEN
        LET r == SetStringValue(kv, v.name, v.value, err)
        IN  [kv |-> r.kv,
             calls |-> <<Call(scope, "set", v.name, v.value, r.res)>>,
             outcome |-> IF r.res = "ok" THEN "set" ELSE "failed"]
    ELSE IF v.operation = "delete" THEN
        LET r == DeleteValue(kv, v.name, err)
        IN  [kv |-> r.kv,
             calls |-> <<Call(scope, "delete", v.name, "", r.res)>>,
             outcome |-> IF r.res = "ok" THEN "deleted" ELSE "failed"]
    ELSE [kv |-> kv, calls |-> << >>, outcome |-> "unknown"]

\* loop body in which any operation other than "delete" is a set
applyEntryDefaultSet(kv, scope, v, err) ==
    IF v.operation = "delete" THEN
        LET r == DeleteValue(kv, v.name, err)
        IN  [kv |-> r.kv,
             calls |-> <<Call(scope, "delete", v.name, "", r.res)>>,
             outcome |-> IF r.res = "ok" THEN "deleted"
                         ELSE IF r.res = "notexist" THEN "already-absent"
                         ELSE "failed"]
    ELSE
        LET r == SetStringValue(kv, v.name, v.value, err)
        IN  [kv |-> r.kv,
             calls |-> <<Call(scope, "set", v.name, v.value, r.res)>>,
             outcome |-> IF r.res = "ok" THEN "set" ELSE "failed"]

\* loop body in which a set leaves a name that is present as it is
applyEntryKeepExisting(kv, scope, v, err) ==
    IF v.operation = "set" THEN
        LET r == IF kv[v.name] = Absent THEN SetStringValue(kv, v.name, v.value, err)
                 ELSE [kv |-> kv, res |-> IF err THEN "error" ELSE "ok"]
        IN  [kv |-> r.kv,
             calls |-> <<Call(scope, "set", v.name, v.value, r.res)>>,
             outcome |-> IF r.res = "ok" THEN "set" ELSE "failed"]
    ELSE IF v.operation = "delete" THEN
        LET r == DeleteValue(kv, v.name, err)
        IN  [kv |-> r.kv,
             calls |-> <<Call(scope, "delete", v.name, "", r.res)>>,
             outcome |-> IF r.res = "ok" THEN "deleted"
                         ELSE IF r.res = "notexist" THEN "already-absent"
                         ELSE "failed"]
    ELSE [kv |-> kv, calls |-> << >>, outcome |-> "unknown"]

\* applyVariables, the body of the loop for one entry v: the key's new
\* contents, the store calls made, and the line printed for the entry
applyEntry(kv, scope, v, err) ==
    IF v.operation = "set" THEN
        LET r == SetStringValue(kv, v.name, v.value, err)
        IN  [kv |-> r.kv,
             calls |-> <<Call(scope, "set", v.name, v.value, r.res)>>,
             outcome |-> IF r.res = "ok" THEN "set" ELSE "failed"]
    ELSE IF v.operation = "delete" THEN
        LET r == DeleteValue(kv, v.name, err)
        IN  [kv |-> r.kv,
             calls |-> <<Call(scope, "delete", v.name, "", r.res)>>,
             outcome |-> IF r.res = "ok" THEN "deleted"
                         ELSE IF r.res = "notexist" THEN "already-absent"
                         ELSE "failed"]
    ELSE [kv |-> kv, calls |-> << >>, outcome |-> "unknown"]

\* an applyVariables that returns an error when an entry failed
applyVariablesErrOnFailure(opened, outcomes) ==
    ~opened \/ \E k \in 1..Len(outcomes) : outcomes[k] = "failed"

\* an applyVariables that reports no error when the key cannot be opened
applyVariablesErrNever(opened, outcomes) == FALSE

\* applyVariables' return value: an error only if the key could not be
\* opened; the loop never returns
applyVariablesErr(opened, outcomes) == ~opened

\* a gate that lets every process write the system scope
systemScopeAppliedAlways(admin) == TRUE

\* applyEnvVars: the system scope is applied only when isAdmin
systemScopeApplied(admin) == admin

\* applyEnvVars: not elevated with system entries: the handler shows "Admin
\* Required" and returns
systemScopeIgnoredReturns(admin, config) ==
    ~admin /\ Len(config.system_variables) > 0

(***************************************************************************)
(* Texts of the status label and titles of the dialogs.                    *)
(***************************************************************************)
StatusReady == "Ready. Please select a YAML config file."
StatusPreselected == "File pre-selected. Click 'Preview Changes' or 'Apply Variables' to proceed."
StatusApplying == "Applying variables... Please wait."
StatusReadError == "Error reading YAML file"
StatusParseError == "Error unmarshaling YAML"
StatusUserError == "Error applying user variables"
StatusSystemError == "Error applying system variables"
StatusIgnored == "System variables were ignored. Relaunch as admin to apply them."
StatusBroadcastError == "Error broadcasting changes"
StatusApplied == "Environment variables applied successfully. Some applications may need to be restarted."
StatusCancelled == "File selection cancelled."
StatusChooseError == "Error choosing file"
StatusSelected == "File selected. Click 'Preview Changes' or 'Apply Variables' to proceed."
StatusExporting == "Exporting variables... Please wait."
StatusExportError == "Error exporting variables"
StatusExportCancelled == "Export cancelled."
StatusSaveError == "Error saving file"
StatusWriteError == "Error writing config to file"
StatusExported == "Variables exported successfully"

(***************************************************************************)
(* State of the process.                                                   *)
(***************************************************************************)
VARIABLES
    isAdmin,            \* main: isAdmin, computed once at startup
    osArgs,             \* os.Args[1:]
    selectedFilePath,   \* main: selectedFilePath, shared by all handlers
    filePathLabel,      \* the path shown by filePathLabel
    statusLabel,        \* text of statusLabel
    dialog,             \* title of the dialog shown last
    files,              \* the file system: path -> document or NoFile
    store,              \* the registry: scope -> name -> value or Absent
    go,                 \* the goroutines started by applyEnvVars
    last,               \* how the apply run that ended last ended
    reads,              \* paths that were passed to ioutil.ReadFile
    ui,                 \* position of the UI thread inside previewChanges
    previewWindow,      \* lines of the preview window opened last
    chooser,            \* the goroutine of chooseFileButton
    export,             \* the goroutine of exportButton
    relaunch,           \* the goroutine of runAsAdminButton
    child,              \* the elevated instance started by elevateAsAdmin
    alive,              \* FALSE once myApp.Quit() was called
    presses             \* number of buttons pressed so far

vars == <<isAdmin, osArgs, selectedFilePath, filePathLabel, statusLabel, dialog,
          files, store, go, last, reads, ui, previewWindow, chooser, export,
          relaunch, child, alive, presses>>

Runs == 1..MaxGo

NoStore == [sc \in Scopes |-> [n \in Names |-> Absent]]

\* what is kept of a run that ended: whether it got as far as a parsed
\* configuration, whether every store call of it succeeded, and the store
\* it left
NoLast == [ended |-> FALSE, parsed |-> FALSE, config |-> EmptyConfig,
           clean |-> FALSE, endStore |-> NoStore]

IdleRun == [pc |-> "idle", config |-> EmptyConfig, i |-> 0, calls |-> << >>,
            outcomes |-> [user |-> << >>, system |-> << >>],
            notified |-> 0, summary |-> [status |-> "none", dialog |-> "none"],
            endStore |-> NoStore, prev |-> NoLast]

\* no store call of the run met an error of the environment
Clean(r) == \A k \in 1..Len(r.calls) : r.calls[k].res # "error"

Summary(r, parsed, st) ==
    [ended |-> TRUE, parsed |-> parsed, config |-> r.config, clean |-> Clean(r),
     endStore |-> st]

\* the goroutine returns after showing its last status and dialog
Finished(r, status, dlg, st) ==
    [r EXCEPT !.pc = "done", !.summary = [status |-> status, dialog |-> dlg],
              !.endStore = st]

InFlight(g) == go[g].pc \notin {"idle", "done"}

(***************************************************************************)
(* applyEnvVars (Apply Variables).                                         *)
(***************************************************************************)
\* The handler on the UI thread: the checks of the selection, then the
\* goroutine is started.
applyEnvVars ==
    /\ alive /\ ui = "idle"
    /\ \E g \in Runs : ~InFlight(g)
    /\ IF selectedFilePath = NoPath THEN
           /\ dialog' = "Error"
           /\ UNCHANGED <<statusLabel, go>>
       ELSE IF ~isValidYAMLFile(selectedFilePath) THEN
           /\ dialog' = "Error"
           /\ UNCHANGED <<statusLabel, go>>
       ELSE
           /\ statusLabel' = StatusApplying
           /\ LET g == CHOOSE g \in Runs :
                          ~InFlight(g) /\ \A h \in Runs : ~InFlight(h) => g <= h
              IN  go' = [go EXCEPT ![g] = [IdleRun EXCEPT !.pc = "read", !.prev = last]]
           /\ UNCHANGED dialog
    /\ UNCHANGED <<isAdmin, osArgs, selectedFilePath, filePathLabel, files, store, last,
                   reads, ui, previewWindow, chooser, export, relaunch, child, alive>>

\* ioutil.ReadFile(selectedFilePath) and yaml.Unmarshal, in the goroutine:
\* selectedFilePath is read again here.
ReadConfig(g) ==
    /\ alive /\ go[g].pc = "read"
    /\ reads' = reads \cup {selectedFilePath}
    /\ LET content == files[selectedFilePath]
           parsed == Parse(content)
       IN  IF content = NoFile THEN
               /\ statusLabel' = StatusReadError
               /\ dialog' = "Error"
               /\ go' = [go EXCEPT ![g] = Finished(@, StatusReadError, "Error", store)]
               /\ last' = Summary(go[g], FALSE, store)
           ELSE IF ~parsed.ok THEN
               /\ statusLabel' = StatusParseError
               /\ dialog' = "Error"
               /\ go' = [go EXCEPT ![g] = Finished(@, StatusParseError, "Error", store)]
               /\ last' = Summary(go[g], FALSE, store)
           ELSE
               /\ go' = [go EXCEPT ![g].config = parsed.cfg, ![g].pc = "userOpen"]
               /\ UNCHANGED <<statusLabel, dialog, last>>
    /\ UNCHANGED <<isAdmin, osArgs, selectedFilePath, filePathLabel, files, store,
                   ui, previewWindow, chooser, export, relaunch, child, alive, presses>>

ScopeList(config, scope) ==
    IF scope = "user" THEN config.user_variables ELSE config.system_variables

ScopeErrorStatus(scope) ==
    IF scope = "user" THEN StatusUserError ELSE StatusSystemError

\* where the handler goes after applyVariables(scope) returned nil
AfterScope(scope) == IF scope = "user" THEN "gate" ELSE "notify"

\* applyVariables returned: the handler aborts on an error, else goes on
ScopeReturned(g, r, scope, opened) ==
    IF applyVariablesErr(opened, r.outcomes[scope]) THEN
        /\ statusLabel' = ScopeErrorStatus(scope)
        /\ dialog' = "Error"
        /\ go' = [go EXCEPT ![g] = Finished(r, ScopeErrorStatus(scope), "Error", store')]
        /\ last' = Summary(r, TRUE, store')
    ELSE
        /\ go' = [go EXCEPT ![g] = [r EXCEPT !.pc = AfterScope(scope)]]
        /\ UNCHANGED <<statusLabel, dialog, last>>

\* applyVariables: registry.OpenKey(hive, subkeyPath, registry.SET_VALUE);
\* ok is the environment's answer.  With an empty list the function
\* returns at once.
OpenScope(g, scope, ok) ==
    LET r == [go[g] EXCEPT !.calls = Append(@, Call(scope, "open", "", "",
                                        IF ok THEN "ok" ELSE "error"))]
    IN  /\ UNCHANGED store
        /\ IF ok /\ Len(ScopeList(r.config, scope)) > 0 THEN
               /\ go' = [go EXCEPT ![g] = [r EXCEPT !.pc = scope, !.i = 1]]
               /\ UNCHANGED <<statusLabel, dialog, last>>
           ELSE ScopeReturned(g, r, scope, ok)

\* applyVariables: one iteration of the loop; after the last entry the
\* function returns
StepScope(g, scope, err) ==
    LET v == ScopeList(go[g].config, scope)[go[g].i]
        e == applyEntry(store[scope], scope, v, err)
        r == [go[g] EXCEPT !.calls = @ \o e.calls,
                           !.outcomes[scope] = Append(@, e.outcome),
                           !.i = @ + 1]
    IN  /\ store' = [store EXCEPT ![scope] = e.kv]
        /\ IF r.i <= Len(ScopeList(r.config, scope)) THEN
               /\ go' = [go EXCEPT ![g] = r]
               /\ UNCHANGED <<statusLabel, dialog, last>>
           ELSE ScopeReturned(g, r, scope, TRUE)

OpenUser(g) ==
    /\ alive /\ go[g].pc = "userOpen"
    /\ \E ok \in BOOLEAN : OpenScope(g, "user", ok)
    /\ UNCHANGED <<isAdmin, osArgs, selectedFilePath, filePathLabel, files,
                   reads, ui, previewWindow, chooser, export, relaunch, child, alive, presses>>

StepUser(g) ==
    /\ alive /\ go[g].pc = "user"
    /\ \E err \in BOOLEAN : StepScope(g, "user", err)
    /\ UNCHANGED <<isAdmin, osArgs, selectedFilePath, filePathLabel, files,
                   reads, ui, previewWindow, chooser, export, relaunch, child, alive, presses>>

\* applyEnvVars after the user scope: if isAdmin the system key is opened;
\* else, with system entries, the handler reports them ignored and returns
Gate(g) ==
    /\ alive /\ go[g].pc = "gate"
    /\ IF systemScopeApplied(isAdmin) THEN
           \E ok \in BOOLEAN : OpenScope(g, "system", ok)
       ELSE IF systemScopeIgnoredReturns(isAdmin, go[g].config) THEN
           /\ statusLabel' = StatusIgnored
           /\ dialog' = "Admin Required"
           /\ go' = [go EXCEPT ![g] = Finished(@, StatusIgnored, "Admin Required", store)]
           /\ last' = Summary(go[g], TRUE, store)
           /\ UNCHANGED store
       ELSE
           /\ go' = [go EXCEPT ![g].pc = "notify"]
           /\ UNCHANGED <<statusLabel, dialog, store, last>>
    /\ UNCHANGED <<isAdmin, osArgs, selectedFilePath, filePathLabel, files,
                   reads, ui, previewWindow, chooser, export, relaunch, child, alive, presses>>

StepSystem(g) ==
    /\ alive /\ go[g].pc = "system"
    /\ \E err \in BOOLEAN : StepScope(g, "system", err)
    /\ UNCHANGED <<isAdmin, osArgs, selectedFilePath, filePathLabel, files,
                   reads, ui, previewWindow, chooser, export, relaunch, child, alive, presses>>

\* a handler that calls broadcastSettingChange again after a failure
broadcastCallsRetry(ok) == IF ok THEN 1 ELSE 2

\* the calls of broadcastSettingChange the handler makes: one, whatever it
\* returns
broadcastCalls(ok) == 1

\* broadcastSettingChange and the final status; ok is whether
\* SendMessageTimeoutW returned non-zero
Broadcast(g) ==
    /\ alive /\ go[g].pc = "notify"
    /\ \E ok \in BOOLEAN :
          LET status == IF ok THEN StatusApplied ELSE StatusBroadcastError
              dlg == IF ok THEN "Success" ELSE "Error"
          IN  /\ statusLabel' = status
              /\ dialog' = dlg
              /\ go' = [go EXCEPT ![g] =
                            Finished([@ EXCEPT !.notified = @ + broadcastCalls(ok)],
                                     status, dlg, store)]
              /\ last' = Summary(go[g], TRUE, store)
    /\ UNCHANGED <<isAdmin, osArgs, selectedFilePath, filePathLabel, files, store,
                   reads, ui, previewWindow, chooser, export, relaunch, child, alive, presses>>

ApplyStep(g) ==
    \/ ReadConfig(g)
    \/ OpenUser(g)
    \/ StepUser(g)
    \/ Gate(g)
    \/ StepSystem(g)
    \/ Broadcast(g)

(***************************************************************************)
(* previewChanges (Preview Changes): runs on the UI thread.                *)
(***************************************************************************)
PreviewEntry(v, prefix) ==
    IF v.operation = "set" THEN <<prefix, "SET", v.name, v.value>>
    ELSE IF v.operation = "delete" THEN <<prefix, "DELETE", v.name>>
    ELSE <<prefix, "UNKNOWN OPERATION", v.operation, v.name, v.value>>

\* showPreviewWindow: the lines of the window
PreviewLines(config, admin) ==
    LET user == config.user_variables
        system == config.system_variables
        prefix == IF admin THEN "" ELSE "[IGNORED]"
    IN  (IF Len(user) > 0
         THEN << <<"USER ENVIRONMENT VARIABLES:">> >>
              \o [k \in 1..Len(user) |-> PreviewEntry(user[k], "")]
         ELSE << >>)
        \o (IF Len(system) > 0
            THEN << <<"SYSTEM ENVIRONMENT VARIABLES:">> >>
                 \o (IF admin THEN << >> ELSE << <<"WARNING">> >>)
                 \o [k \in 1..Len(system) |-> PreviewEntry(system[k], prefix)]
            ELSE << >>)
        \o (IF Len(user) = 0 /\ Len(system) = 0
            THEN << <<"No environment variables found in the configuration file.">> >>
            ELSE << >>)
        \o << <<"Note">> >>

\* the checks of the selection
previewChanges ==
    /\ alive /\ ui = "idle"
    /\ IF selectedFilePath = NoPath \/ ~isValidYAMLFile(selectedFilePath)
       THEN dialog' = "Error" /\ UNCHANGED ui
       ELSE ui' = "preview" /\ UNCHANGED dialog
    /\ UNCHANGED <<isAdmin, osArgs, selectedFilePath, filePathLabel, statusLabel, files,
                   store, go, last, reads, previewWindow, chooser, export, relaunch,
                   child, alive>>

\* ioutil.ReadFile(selectedFilePath), yaml.Unmarshal, showPreviewWindow
PreviewRead ==
    /\ alive /\ ui = "preview"
    /\ ui' = "idle"
    /\ reads' = reads \cup {selectedFilePath}
    /\ LET content == files[selectedFilePath]
           parsed == Parse(content)
       IN  IF content = NoFile \/ ~parsed.ok
           THEN dialog' = "Error" /\ UNCHANGED previewWindow
           ELSE previewWindow' = PreviewLines(parsed.cfg, isAdmin) /\ UNCHANGED dialog
    /\ UNCHANGED <<isAdmin, osArgs, selectedFilePath, filePathLabel, statusLabel, files,
                   store, go, last, chooser, export, relaunch, child, alive, presses>>

(***************************************************************************)
(* chooseFileButton (Choose YAML Config File).                             *)
(***************************************************************************)
\* the handler starts a goroutine that opens the file dialog
chooseFileButton ==
    /\ alive /\ ui = "idle" /\ chooser = "idle"
    /\ chooser' = "dialog"
    /\ UNCHANGED <<isAdmin, osArgs, selectedFilePath, filePathLabel, statusLabel, dialog,
                   files, store, go, last, reads, ui, previewWindow, export, relaunch,
                   child, alive>>

\* the dialog returns: cancelled, an error, or a path, which is stored in
\* selectedFilePath without a check (the dialog's filter is a hint: a name
\* typed by the user is returned as typed)
ChooseDone ==
    /\ alive /\ chooser = "dialog"
    /\ chooser' = "idle"
    /\ \/ /\ statusLabel' = StatusCancelled
          /\ UNCHANGED <<selectedFilePath, filePathLabel, dialog>>
       \/ /\ statusLabel' = StatusChooseError
          /\ dialog' = "Error"
          /\ UNCHANGED <<selectedFilePath, filePathLabel>>
       \/ \E filePath \in Paths :
             /\ selectedFilePath' = filePath
             /\ filePathLabel' = filePath
             /\ statusLabel' = StatusSelected
             /\ UNCHANGED dialog
    /\ UNCHANGED <<isAdmin, osArgs, files, store, go, last, reads, ui, previewWindow,
                   export, relaunch, child, alive, presses>>

(***************************************************************************)
(* runAsAdminButton (Relaunch as Admin) and elevateAsAdmin.                *)
(***************************************************************************)
\* the arguments handed to elevateAsAdmin: os.Args[1:], and the selected
\* path appended unless it is one of them already
relaunchArgs(args, selected) ==
    IF selected # NoPath /\ ~contains(args, selected) THEN Append(args, selected)
    ELSE args

\* the goroutine computes the arguments from the selection
runAsAdminButton ==
    /\ alive /\ ui = "idle" /\ relaunch.pc = "idle"
    /\ relaunch' = [pc |-> "elevate", args |-> relaunchArgs(osArgs, selectedFilePath),
                    selected |-> selectedFilePath, err |-> "none"]
    /\ UNCHANGED <<isAdmin, osArgs, selectedFilePath, filePathLabel, statusLabel, dialog,
                   files, store, go, last, reads, ui, previewWindow, chooser, export,
                   child, alive>>

\* the instance started by ShellExecuteW: its os.Args[1:] is the parameter
\* string split at spaces, and its main pre-selects os.Args[1]
ElevatedInstance(args) ==
    LET argv == SplitArgs(JoinArgs(args), << >>)
    IN  [started |-> TRUE, args |-> argv,
         selectedFilePath |-> IF Len(argv) > 0 THEN argv[1] ELSE NoPath]

\* a goroutine that quits whatever elevateAsAdmin returned
quitsAfterElevateAlways(failed) == TRUE

\* runAsAdminButton: `if err != nil { ShowError } else { myApp.Quit() }`
quitsAfterElevate(failed) == ~failed

\* elevateAsAdmin returns: ShellExecuteW gave r <= 32 (prompt declined or
\* launch failed) and the goroutine shows an error dialog, or the elevated
\* instance was started and the goroutine calls myApp.Quit()
RelaunchDone ==
    /\ alive /\ relaunch.pc = "elevate"
    /\ \E failed \in BOOLEAN :
          /\ relaunch' = [relaunch EXCEPT !.pc = "idle",
                                          !.err = IF failed THEN "failed" ELSE "nil"]
          /\ child' = IF failed THEN child ELSE ElevatedInstance(relaunch.args)
          /\ dialog' = IF failed THEN "Error" ELSE dialog
          /\ alive' = ~quitsAfterElevate(failed)
    /\ UNCHANGED <<isAdmin, osArgs, selectedFilePath, filePathLabel, statusLabel,
                   files, store, go, last, reads, ui, previewWindow, chooser, export,
                   presses>>

(***************************************************************************)
(* exportButton (Export Variables to YAML).                                *)
(***************************************************************************)
\* the orders in which key.ReadValueNames may list the names of a set
Orders(S) == {o \in SeqUpTo(S, Cardinality(S)) :
                 Len(o) = Cardinality(S) /\ \A n \in S : \E k \in 1..Len(o) : o[k] = n}

\* a reader that stores the name of each variable as its value
RECURSIVE readVariablesNameAsValue(_, _, _)
readVariablesNameAsValue(kv, order, unreadable) ==
    IF Len(order) = 0 THEN << >>
    ELSE (IF Head(order) \in unreadable THEN << >>
          ELSE <<Variable(Head(order), Head(order), "set")>>)
         \o readVariablesNameAsValue(kv, Tail(order), unreadable)

\* readVariablesFromRegistry: the values of the names in the order listed;
\* a name whose value cannot be read is left out
RECURSIVE readVariables(_, _, _)
readVariables(kv, order, unreadable) ==
    IF Len(order) = 0 THEN << >>
    ELSE (IF Head(order) \in unreadable THEN << >>
          ELSE <<Variable(Head(order), kv[Head(order)], "set")>>)
         \o readVariables(kv, Tail(order), unreadable)

Present(kv) == {n \in Names : kv[n] # Absent}

\* the handler starts the goroutine, which sets the status
exportButton ==
    /\ alive /\ ui = "idle" /\ export.pc = "idle"
    /\ export' = [pc |-> "user", config |-> EmptyConfig, savePath |-> NoPath]
    /\ statusLabel' = StatusExporting
    /\ UNCHANGED <<isAdmin, osArgs, selectedFilePath, filePathLabel, dialog, files,
                   store, go, last, reads, ui, previewWindow, chooser, relaunch,
                   child, alive>>

ExportFailed ==
    /\ export' = [export EXCEPT !.pc = "idle", !.config = EmptyConfig]
    /\ statusLabel' = StatusExportError
    /\ dialog' = "Error"

\* exportEnvironmentVariables: the user key is read
ExportReadUser ==
    /\ alive /\ export.pc = "user"
    /\ \/ ExportFailed
       \/ \E order \in Orders(Present(store["user"])),
             unreadable \in SUBSET Present(store["user"]) :
             /\ export' = [export EXCEPT
                    !.config.user_variables = readVariables(store["user"], order, unreadable),
                    !.pc = IF isAdmin THEN "system" ELSE "dialog"]
             /\ UNCHANGED <<statusLabel, dialog>>
    /\ UNCHANGED <<isAdmin, osArgs, selectedFilePath, filePathLabel, files,
                   store, go, last, reads, ui, previewWindow, chooser, relaunch,
                   child, alive, presses>>

\* exportEnvironmentVariables: the system key is read, only if isAdmin
ExportReadSystem ==
    /\ alive /\ export.pc = "system"
    /\ \/ ExportFailed
       \/ \E order \in Orders(Present(store["system"])),
             unreadable \in SUBSET Present(store["system"]) :
             /\ export' = [export EXCEPT
                    !.config.system_variables = readVariables(store["system"], order, unreadable),
                    !.pc = "dialog"]
             /\ UNCHANGED <<statusLabel, dialog>>
    /\ UNCHANGED <<isAdmin, osArgs, selectedFilePath, filePathLabel, files,
                   store, go, last, reads, ui, previewWindow, chooser, relaunch,
                   child, alive, presses>>

\* the paths the save dialog returns in the model
SaveChoices == {PathYaml, PathYML, PathNoExt}

\* the extension appended to a save path that has none
savePathFor(chosen) ==
    IF ~HasSuffix(ToLower(chosen), DotYaml) /\ ~HasSuffix(ToLower(chosen), DotYml)
    THEN chosen \o DotYaml ELSE chosen

\* the save dialog returns: cancelled, an error, or a path
ExportDialog ==
    /\ alive /\ export.pc = "dialog"
    /\ \/ /\ export' = [export EXCEPT !.pc = "idle"]
          /\ statusLabel' = StatusExportCancelled
          /\ UNCHANGED dialog
       \/ /\ export' = [export EXCEPT !.pc = "idle"]
          /\ statusLabel' = StatusSaveError
          /\ dialog' = "Error"
       \/ \E chosen \in SaveChoices :
             /\ export' = [export EXCEPT !.pc = "save", !.savePath = savePathFor(chosen)]
             /\ UNCHANGED <<statusLabel, dialog>>
    /\ UNCHANGED <<isAdmin, osArgs, selectedFilePath, filePathLabel, files,
                   store, go, last, reads, ui, previewWindow, chooser, relaunch,
                   child, alive, presses>>

\* saveConfigToFile: yaml.Marshal and ioutil.WriteFile
ExportSave ==
    /\ alive /\ export.pc = "save"
    /\ export' = [export EXCEPT !.pc = "idle"]
    /\ \/ /\ files' = [files EXCEPT ![export.savePath] = Render(export.config)]
          /\ statusLabel' = StatusExported
          /\ dialog' = "Export Success"
       \/ /\ statusLabel' = StatusWriteError
          /\ dialog' = "Error"
          /\ UNCHANGED files
    /\ UNCHANGED <<isAdmin, osArgs, selectedFilePath, filePathLabel,
                   store, go, last, reads, ui, previewWindow, chooser, relaunch,
                   child, alive, presses>>

(***************************************************************************)
(* Sequential use: one configuration file, selected at launch, applied     *)
(* again and again, each run started after the one before has ended.       *)
(***************************************************************************)
Entries == {Variable("A", "1", "set"), Variable("A", "2", "set"),
            Variable("B", "1", "set"), Variable("A", "", "delete"),
            Variable("A", "2", "frobnicate")}
SystemLists == {<< >>, <<Variable("A", "1", "set")>>, <<Variable("A", "", "delete")>>,
                <<Variable("B", "2", "frobnicate"), Variable("B", "2", "set")>>}

ApplyConfigs == {Config(u, s) : u \in SeqUpTo(Entries, MaxUser), s \in SystemLists}

\* the stores a run starts from: both keys empty, or A = "1" in both
InitStores == {[sc \in Scopes |-> [n \in Names |-> IF n \in present THEN "1" ELSE Absent]] :
                  present \in {{}, {"A"}}}

NoRelaunch == [pc |-> "idle", args |-> << >>, selected |-> NoPath, err |-> "none"]

NoChild == [started |-> FALSE, args |-> << >>, selectedFilePath |-> NoPath]

NoExport == [pc |-> "idle", config |-> EmptyConfig, savePath |-> NoPath]

UIIdle ==
    /\ ui = "idle"
    /\ previewWindow = << >>
    /\ chooser = "idle"
    /\ relaunch = NoRelaunch
    /\ child = NoChild
    /\ alive = TRUE
    /\ dialog = "none"
    /\ reads = {}
    /\ last = NoLast
    /\ go = [g \in Runs |-> IdleRun]

\* main: selectedFilePath is os.Args[1] if there is one
Launch(args) ==
    /\ osArgs = args
    /\ selectedFilePath = (IF Len(args) > 0 THEN args[1] ELSE NoPath)
    /\ filePathLabel = selectedFilePath
    /\ statusLabel = (IF selectedFilePath # NoPath THEN StatusPreselected ELSE StatusReady)

InitSeq ==
    /\ isAdmin \in BOOLEAN
    /\ Launch(<<PathYaml>>)
    /\ \E content \in {NoFile, MalformedDoc} \cup {Render(c) : c \in ApplyConfigs} :
          files = [p \in Paths |-> IF p = PathYaml THEN content ELSE NoFile]
    /\ store \in InitStores
    /\ UIIdle
    /\ export = NoExport
    /\ presses = 0

ApplyPressIdle ==
    /\ \A g \in Runs : ~InFlight(g)
    /\ applyEnvVars
    /\ UNCHANGED presses

ApplyRun == \E g \in Runs : ApplyStep(g)

NextSeq ==
    \/ ApplyPressIdle
    \/ ApplyRun

SpecSeq == InitSeq /\ [][NextSeq]_vars

(***************************************************************************)
(* The process as the user drives it: any button at any time.              *)
(***************************************************************************)
\* the configuration files on disk
DiskConfig == Config(<<Variable("A", "1", "set")>>, <<Variable("B", "2", "set")>>)

\* the command lines the process is launched with
LaunchArgs == {<< >>, <<PathYaml>>, <<PathTxt>>}

Init ==
    /\ isAdmin \in BOOLEAN
    /\ \E args \in LaunchArgs : Launch(args)
    /\ files = [p \in Paths |-> IF isValidYAMLFile(p) THEN Render(DiskConfig) ELSE NoFile]
    /\ store = NoStore
    /\ UIIdle
    /\ export = NoExport
    /\ presses = 0

\* a button is pressed: one more of the MaxPresses presses
Pressed == presses < MaxPresses /\ presses' = presses + 1

ApplyPress == Pressed /\ applyEnvVars
PreviewPress == Pressed /\ previewChanges
ChoosePress == Pressed /\ chooseFileButton
RelaunchPress == Pressed /\ runAsAdminButton
ExportPress == Pressed /\ exportButton

Next ==
    \/ ApplyPress
    \/ ApplyRun
    \/ PreviewPress
    \/ PreviewRead
    \/ ChoosePress
    \/ ChooseDone
    \/ RelaunchPress
    \/ RelaunchDone
    \/ ExportPress
    \/ ExportReadUser
    \/ ExportReadSystem
    \/ ExportDialog
    \/ ExportSave

Spec == Init /\ [][Next]_vars

(***************************************************************************)
(* The relaunch flow: launch, file choices, previews and Relaunch as      *)
(* Admin, with elevateAsAdmin free to fail.                                *)
(***************************************************************************)
NextRelaunch ==
    \/ ChoosePress
    \/ ChooseDone
    \/ PreviewPress
    \/ PreviewRead
    \/ RelaunchPress
    \/ RelaunchDone

SpecRelaunch == Init /\ [][NextRelaunch]_vars

(***************************************************************************)
(* The serializer there and back: a configuration is handed to             *)
(* saveConfigToFile, and the file written is selected and read back by     *)
(* applyEnvVars.                                                           *)
(***************************************************************************)
\* names, values and operations as they may stand in a configuration
\* handed to the serializer
RoundTripNames == {"A", "~"}
RoundTripValues == {"1", "", "a: b", "#c", "null"}
RoundTripOperations == {"set", "true"}
RoundTripEntries == {Variable(n, v, o) : n \in RoundTripNames, v \in RoundTripValues,
                                         o \in RoundTripOperations}
RoundTripSystemLists == {<< >>, <<Variable("~", "", "delete")>>,
                         <<Variable("B", "true", "set"), Variable("B", "#c", "set")>>}
RoundTripConfigs == {Config(u, sy) : u \in SeqUpTo(RoundTripEntries, MaxUser),
                                     sy \in RoundTripSystemLists}

InitRoundTrip ==
    /\ isAdmin = FALSE
    /\ Launch(<<PathYaml>>)
    /\ files = [p \in Paths |-> NoFile]
    /\ store = NoStore
    /\ UIIdle
    /\ presses = 0
    /\ \E c \in RoundTripConfigs :
          export = [pc |-> "save", config |-> c, savePath |-> PathYaml]

NextRoundTrip ==
    \/ ExportSave
    \/ ApplyPressIdle
    \/ \E g \in Runs : ReadConfig(g)

SpecRoundTrip == InitRoundTrip /\ [][NextRoundTrip]_vars


(***************************************************************************)
(* Export, then apply of the exported file: the store starts with any      *)
(* contents, the variables are exported to a file, and the file selected   *)
(* at launch is applied.                                                   *)
(***************************************************************************)
ExportValues == {Absent, "1", ""}
ExportStores == [Scopes -> [Names -> ExportValues]]

InitExportApply ==
    /\ isAdmin \in BOOLEAN
    /\ Launch(<<PathYaml>>)
    /\ files = [p \in Paths |-> NoFile]
    /\ store \in ExportStores
    /\ UIIdle
    /\ export = NoExport
    /\ presses = 0

\* Export is pressed while nothing is in flight and nothing was saved yet
ExportPressIdle ==
    /\ export = NoExport
    /\ \A g \in Runs : ~InFlight(g)
    /\ exportButton
    /\ UNCHANGED presses

\* Apply is pressed while neither an export nor a run is in flight
ApplyPressAfterExport ==
    /\ export.pc = "idle"
    /\ ApplyPressIdle

NextExportApply ==
    \/ ExportPressIdle
    \/ ExportReadUser
    \/ ExportReadSystem
    \/ ExportDialog
    \/ ExportSave
    \/ ApplyPressAfterExport
    \/ ApplyRun

SpecExportApply == InitExportApply /\ [][NextExportApply]_vars

(***************************************************************************)
(* What a run did, read off its record.                                    *)
(***************************************************************************)
\* the set and delete calls the run made in a scope, in order
OpsOf(r, scope) ==
    LET sel == SelectSeq(r.calls, LAMBDA c : c.scope = scope /\ c.op # "open")
    IN  [k \in 1..Len(sel) |-> <<sel[k].op, sel[k].name, sel[k].value>>]

\* the set and delete calls a list asks for, in order
RECURSIVE OpsAskedBy(_)
OpsAskedBy(list) ==
    IF Len(list) = 0 THEN << >>
    ELSE LET v == Head(list)
         IN  (IF v.operation = "set" THEN << <<"set", v.name, v.value>> >>
              ELSE IF v.operation = "delete" THEN << <<"delete", v.name, "">> >>
              ELSE << >>) \o OpsAskedBy(Tail(list))

\* the run opened the scope's key
Opened(r, scope) ==
    \E k \in 1..Len(r.calls) :
        r.calls[k].scope = scope /\ r.calls[k].op = "open" /\ r.calls[k].res = "ok"

\* the run tried to open the scope's key
OpenTried(r, scope) ==
    \E k \in 1..Len(r.calls) : r.calls[k].scope = scope /\ r.calls[k].op = "open"

HasOutcome(r, scope, o) ==
    \E k \in 1..Len(r.outcomes[scope]) : r.outcomes[scope][k] = o

\* the line printed for the k-th entry of the scope, if it was handled
OutcomeAt(r, scope, k) ==
    IF k \in 1..Len(r.outcomes[scope]) THEN r.outcomes[scope][k] ELSE "none"

Done(g) == go[g].pc = "done"

(***************************************************************************)
(* Claims.                                                                 *)
(***************************************************************************)

\* C1: Privilege gating.  When the process is not elevated, no run ever
\* makes a store call (open, set or delete) against the system scope,
\* whatever system_variables holds; and a run that opened the user key has,
\* when it ends, issued exactly the sets and deletes user_variables asks
\* for, in order, and has handled every user entry.
C1_PrivilegeGating ==
    ~isAdmin =>
        \A g \in Runs :
            /\ \A k \in 1..Len(go[g].calls) : go[g].calls[k].scope # "system"
            /\ Len(go[g].outcomes["system"]) = 0
            /\ (Done(g) /\ Opened(go[g], "user")) =>
                   /\ OpsOf(go[g], "user") = OpsAskedBy(go[g].config.user_variables)
                   /\ Len(go[g].outcomes["user"]) = Len(go[g].config.user_variables)

\* a run of a standard user whose file has system entries and MaxUser user
\* entries, the first a set that was written
C1_Witness ==
    /\ ~isAdmin
    /\ \E g \in Runs :
          /\ Done(g)
          /\ Len(go[g].config.system_variables) > 0
          /\ Len(go[g].config.user_variables) = MaxUser
          /\ OutcomeAt(go[g], "user", 1) = "set"
          /\ store["user"][go[g].config.user_variables[MaxUser].name] # Absent

\* C2 (as claimed): a run of a non-elevated process whose file has system
\* entries and that opened the user key ends having invoked the Notifier.
C2_NotifiedAfterSkip ==
    \A g \in Runs :
        (/\ Done(g)
         /\ ~isAdmin
         /\ Len(go[g].config.system_variables) > 0
         /\ Opened(go[g], "user"))
        => go[g].notified = 1

\* C3: Idempotence.  A run that ends after an earlier run of the same
\* configuration, with no store call of either run met by an error of the
\* environment and no other writer in between, leaves the store as the
\* earlier run left it, has no entry with outcome failed, and has handled
\* every entry of every scope it opened (a delete of an absent name is
\* already-absent and stops nothing).
C3_Idempotent ==
    \A g \in Runs :
        (/\ Done(g)
         /\ go[g].prev.ended /\ go[g].prev.parsed /\ go[g].prev.clean
         /\ go[g].prev.config = go[g].config
         /\ Clean(go[g]))
        => /\ go[g].endStore = go[g].prev.endStore
           /\ \A sc \in Scopes :
                 /\ ~HasOutcome(go[g], sc, "failed")
                 /\ Opened(go[g], sc) =>
                        Len(go[g].outcomes[sc]) = Len(ScopeList(go[g].config, sc))

\* a second run in which a delete found its name already absent, after a
\* first run that changed the store
C3_Witness ==
    \E g \in Runs :
        /\ Done(g)
        /\ go[g].prev.ended /\ go[g].prev.parsed /\ go[g].prev.clean
        /\ Clean(go[g])
        /\ HasOutcome(go[g], "user", "already-absent")
        /\ HasOutcome(go[g], "user", "set")
        /\ Len(go[g].config.user_variables) = MaxUser

\* where a run that opened the user key ends up, whatever its entries did:
\* at the Notifier unless the system key could not be opened or the system
\* entries were ignored for lack of privilege
ReachesNotifier(r) ==
    IF isAdmin THEN Opened(r, "system") ELSE Len(r.config.system_variables) = 0

InLoop(g) == go[g].pc \in Scopes
CurrentEntry(g) == ScopeList(go[g].config, go[g].pc)[go[g].i]

\* C5: Unknown operation safety.  The step that handles an entry whose
\* operation is neither "set" nor "delete" makes no store call and leaves
\* the store unchanged, records the entry as unknown, and goes on to the
\* next entry or, after the last one, to what follows the scope.
C5_UnknownOperationSafety ==
    [][\A g \in Runs :
          (/\ InLoop(g)
           /\ CurrentEntry(g).operation \notin {"set", "delete"}
           /\ go'[g] # go[g])
          => /\ store' = store
             /\ go'[g].calls = go[g].calls
             /\ go'[g].outcomes[go[g].pc] = Append(go[g].outcomes[go[g].pc], "unknown")
             /\ go'[g].i = go[g].i + 1
             /\ go'[g].pc = (IF go[g].i < Len(ScopeList(go[g].config, go[g].pc))
                             THEN go[g].pc ELSE AfterScope(go[g].pc))]_vars

\* a run that skipped an unknown first entry and then wrote the second
C5_Witness ==
    \E g \in Runs :
        /\ Done(g)
        /\ Len(go[g].config.user_variables) = MaxUser
        /\ go[g].config.user_variables[1].operation = "frobnicate"
        /\ OutcomeAt(go[g], "user", 1) = "unknown"
        /\ OutcomeAt(go[g], "user", MaxUser) = "set"
        /\ store["user"][go[g].config.user_variables[1].name] = Absent

\* C6 (as claimed): every path handed to ioutil.ReadFile by apply or
\* preview is one the extension guard accepts; and the guard accepts
\* cfg.yaml and cfg.YML and rejects cfg.txt and cfg.
C6_ReadsPassGuard ==
    /\ \A p \in reads : isValidYAMLFile(p)
    /\ isValidYAMLFile(PathYaml) /\ isValidYAMLFile(PathYML)
    /\ ~isValidYAMLFile(PathTxt) /\ ~isValidYAMLFile(PathNoExt)

\* C7 (as claimed): the path pre-selected in the elevated instance is the
\* path that was selected in the original instance when Relaunch as Admin
\* computed the arguments.
C7_RelaunchKeepsSelection ==
    child.started => child.selectedFilePath = relaunch.selected

\* the operations in flight: the apply goroutines and the export goroutine
OperationsInFlight ==
    Cardinality({g \in Runs : InFlight(g)}) + (IF export.pc # "idle" THEN 1 ELSE 0)

\* C8 (as claimed): at most one apply or export operation is in flight.
C8_OneOperationInFlight == OperationsInFlight <= 1

C10_SummaryShowsFailure ==
    \A g \in Runs :
        (Done(g) /\ \E sc \in Scopes : HasOutcome(go[g], sc, "failed"))
        => go[g].summary # [status |-> StatusApplied, dialog |-> "Success"]

\* C11: Relaunch as Admin.  The step in which elevateAsAdmin returns either
\* failed, and then the process keeps running with its selected path
\* unchanged and no elevated instance started by that step, or succeeded,
\* and then the elevated instance is started and the process terminates; a
\* terminated process takes no further step; and no step of any kind
\* changes the privilege state of the process.
C11_RelaunchOutcome ==
    [][/\ isAdmin' = isAdmin
       /\ ~alive => UNCHANGED vars
       /\ (relaunch.pc = "elevate" /\ relaunch'.pc = "idle") =>
              IF relaunch'.err = "failed"
              THEN /\ alive'
                   /\ selectedFilePath' = selectedFilePath
                   /\ child' = child
              ELSE /\ ~alive'
                   /\ child'.started]_vars

\* a declined relaunch of a process with a selected file, still running
C11_Witness ==
    /\ alive
    /\ relaunch.pc = "idle" /\ relaunch.err = "failed"
    /\ relaunch.selected # NoPath
    /\ selectedFilePath = relaunch.selected
    /\ ~child.started

\* the position of the last entry of the list that names n with a
\* recognized operation, 0 if there is none
LastOf(list, n) ==
    LET ks == {k \in 1..Len(list) :
                  list[k].name = n /\ list[k].operation \in {"set", "delete"}}
    IN  IF ks = {} THEN 0 ELSE CHOOSE k \in ks : \A j \in ks : j <= k

\* C12: Last write wins.  When a run has ended with no store call met by
\* an error, in every scope whose key it opened each name that occurs in
\* the scope's list with operation set or delete is, in the store the run
\* left, what the last such entry says: its value if it is a set, absent
\* if it is a delete.
C12_LastWriteWins ==
    \A g \in Runs :
        (Done(g) /\ Clean(go[g])) =>
            \A sc \in Scopes :
                Opened(go[g], sc) =>
                    \A n \in Names :
                        LET list == ScopeList(go[g].config, sc)
                            k == LastOf(list, n)
                        IN  k > 0 =>
                               go[g].endStore[sc][n] =
                                   (IF list[k].operation = "set" THEN list[k].value
                                    ELSE Absent)

\* a run over a list that sets A first and last, with different values
C12_Witness ==
    \E g \in Runs :
        /\ Done(g) /\ Clean(go[g]) /\ Opened(go[g], "user")
        /\ Len(go[g].config.user_variables) = MaxUser
        /\ go[g].config.user_variables[1] = Variable("A", "1", "set")
        /\ go[g].config.user_variables[MaxUser] = Variable("A", "2", "set")
        /\ go[g].endStore["user"]["A"] = "2"

\* the store calls of a run are in scope order: none against the user
\* scope follows one against the system scope
UserBeforeSystem(r) ==
    \A j, k \in 1..Len(r.calls) :
        (j < k /\ r.calls[j].scope = "system") => r.calls[k].scope = "system"

\* C13: Notification ordering.  In every run the Notifier is invoked at
\* most once; once it was invoked the run is over and no step adds a store
\* call to it; no system-scope call or entry is made before every user
\* entry was handled, and no user-scope call follows a system-scope call;
\* and an elevated run that opened both keys has, when it ends, invoked
\* the Notifier exactly once.
C13_NotificationOrdering ==
    /\ [](\A g \in Runs :
             /\ go[g].notified <= 1
             /\ go[g].notified = 1 => Done(g)
             /\ UserBeforeSystem(go[g])
             /\ (OpenTried(go[g], "system") \/ Len(go[g].outcomes["system"]) > 0) =>
                    Len(go[g].outcomes["user"]) = Len(go[g].config.user_variables)
             /\ (Done(g) /\ isAdmin /\ Opened(go[g], "user") /\ Opened(go[g], "system")) =>
                    go[g].notified = 1)
    /\ [][\A g \in Runs :
             (go[g].notified = 1 /\ go'[g].notified = 1) =>
                 /\ go'[g].calls = go[g].calls
                 /\ go'[g].outcomes = go[g].outcomes]_vars

\* an elevated run that handled both lists, a user entry being a delete
\* that removed a value, and then invoked the Notifier once, which failed
C13_Witness ==
    \E g \in Runs :
        /\ Done(g) /\ isAdmin
        /\ Len(go[g].config.user_variables) = MaxUser
        /\ Len(go[g].outcomes["user"]) = MaxUser
        /\ HasOutcome(go[g], "user", "deleted")
        /\ Len(go[g].config.system_variables) > 0
        /\ Len(go[g].outcomes["system"]) = Len(go[g].config.system_variables)
        /\ go[g].notified = 1
        /\ go[g].summary.status = StatusBroadcastError

\* the run's store calls against one scope
CallsOn(r, scope) == SelectSeq(r.calls, LAMBDA c : c.scope = scope)

\* the run tried to open the scope's key and could not
OpenFailed(r, scope) == OpenTried(r, scope) /\ ~Opened(r, scope)

\* C14: File-level errors abort the run.  A run that ended at the read or
\* the parse of the file made no store call and no notification.  A run
\* whose user key could not be opened made no other store call (no user
\* entry handled, nothing against the system scope) and no notification.
\* A run whose system key could not be opened handled no system entry,
\* made no call after the failed open and no notification, and the store
\* it left still holds the user-scope writes: every name its user list
\* sets or deletes, the user-scope calls having succeeded, is as the last
\* such entry says.  And the store changes only in a step in which a run
\* adds a successful set or delete to its calls.
C14_FileLevelErrorsAbort ==
    /\ [](\A g \in Runs :
             Done(g) =>
                 /\ go[g].summary.status \in {StatusReadError, StatusParseError} =>
                        /\ go[g].calls = << >>
                        /\ go[g].notified = 0
                 /\ OpenFailed(go[g], "user") =>
                        /\ Len(go[g].calls) = 1
                        /\ Len(go[g].outcomes["user"]) = 0
                        /\ Len(go[g].outcomes["system"]) = 0
                        /\ go[g].notified = 0
                        /\ go[g].summary.status = StatusUserError
                 /\ OpenFailed(go[g], "system") =>
                        /\ Len(CallsOn(go[g], "system")) = 1
                        /\ go[g].calls[Len(go[g].calls)].scope = "system"
                        /\ Len(go[g].outcomes["system"]) = 0
                        /\ go[g].notified = 0
                        /\ go[g].summary.status = StatusSystemError
                        /\ OpsOf(go[g], "user") = OpsAskedBy(go[g].config.user_variables)
                        /\ (\A k \in 1..Len(go[g].calls) :
                               go[g].calls[k].scope = "user" => go[g].calls[k].res # "error")
                           => \A n \in Names :
                                  LET list == go[g].config.user_variables
                                      k == LastOf(list, n)
                                  IN  k > 0 =>
                                         go[g].endStore["user"][n] =
                                             (IF list[k].operation = "set"
                                              THEN list[k].value ELSE Absent))
    /\ [][store' # store =>
             \E g \in Runs :
                 /\ Len(go'[g].calls) = Len(go[g].calls) + 1
                 /\ LET c == go'[g].calls[Len(go'[g].calls)]
                    IN  /\ c.op \in {"set", "delete"} /\ c.res = "ok"
                        /\ Opened(go[g], c.scope)
                        /\ \A sc \in Scopes : sc # c.scope => store'[sc] = store[sc]]_vars

\* an elevated run that wrote a user variable and then could not open the
\* system key: the variable is still in the store
C14_Witness ==
    \E g \in Runs :
        /\ Done(g) /\ isAdmin
        /\ OpenFailed(go[g], "system")
        /\ Len(go[g].config.system_variables) > 0
        /\ Len(go[g].config.user_variables) = MaxUser
        /\ OutcomeAt(go[g], "user", MaxUser) = "set"
        /\ store["user"][go[g].config.user_variables[MaxUser].name]
               = go[g].config.user_variables[MaxUser].value
        /\ go[g].summary.status = StatusSystemError

\* every entry export has collected for the scope is a set of a name to
\* the value the store holds for it
ExportedAsRead(sc) ==
    LET list == ScopeList(export.config, sc)
    IN  \A k \in 1..Len(list) :
            /\ list[k].operation = "set"
            /\ list[k].name \in Names
            /\ list[k].value = store[sc][list[k].name]
            /\ list[k].value # Absent

\* C15: Export then apply is a fixpoint.  Export never reads the system
\* key when the process is not elevated, and system_variables is then
\* empty; every entry it collects is a set of a present name to the value
\* the store holds; a run that applies a parsed file applies the exported
\* configuration; and no step of export or of the run that applies the
\* exported file changes the store: every name-to-value pair of both
\* scopes stays as it was.
C15_ExportApplyFixpoint ==
    /\ [](/\ ~isAdmin => /\ export.pc # "system"
                          /\ export.config.system_variables = << >>
          /\ \A sc \in Scopes : ExportedAsRead(sc)
          /\ \A g \in Runs :
                go[g].pc \notin {"idle", "read"} /\ go[g].summary.status # StatusReadError
                    => go[g].config = export.config)
    /\ [][store' = store]_vars

\* an elevated process exported two user variables and a system variable
\* and applied the file: every entry was set, the Notifier invoked
C15_Witness ==
    \E g \in Runs :
        /\ Done(g) /\ isAdmin
        /\ go[g].config = export.config
        /\ Len(go[g].config.user_variables) = Cardinality(Names)
        /\ Len(go[g].config.system_variables) > 0
        /\ \A k \in 1..Len(go[g].config.user_variables) :
               OutcomeAt(go[g], "user", k) = "set"
        /\ OutcomeAt(go[g], "system", 1) = "set"
        /\ \E n \in Names : store["user"][n] = ""
        /\ go[g].notified = 1

====
